---- MODULE Spec2Model ----
(***************************************************************************)
(* Model of src/airline_dashboard.py: the ingestion of the 'Airline Bids'  *)
(* sheet (load_data), the route analysis (create_route_analysis), the      *)
(* recommendation (show_carrier_insights), the carrier summary             *)
(* (create_airlines_overview) and the control flow of main.                *)
(*                                                                         *)
(* Encoding.  A spreadsheet cell is a record [t, n, s]: t is "none" for an *)
(* empty cell, "num" for a number n, "str" for a string s.  A float of a   *)
(* pandas column is a cell with t = "num" or t = "nan".  Prices and        *)
(* ratings are whole numbers.  A quotient computed by the code in floating *)
(* point is kept as an exact fraction [t, num, den] (t = "nan" / "inf"     *)
(* when numpy divides by zero); a value the code rounds to two decimals is *)
(* kept as an integer number of hundredths.                                *)
(***************************************************************************)
EXTENDS Integers, Sequences, FiniteSets, TLC

VARIABLES wb, pc, df, errors, calls, selected_origin, selected_destination,
          route_data, metrics, insight, airline_stats, top_competitive,
          loaded

vars == <<wb, pc, df, errors, calls, selected_origin, selected_destination,
          route_data, metrics, insight, airline_stats, top_competitive,
          loaded>>

-----------------------------------------------------------------------------
(* Cells and floats *)

None == [t |-> "none", n |-> 0, s |-> ""]

Num(n) == [t |-> "num", n |-> n, s |-> ""]

Str(s) == [t |-> "str", n |-> 0, s |-> s]

NaN == [t |-> "nan", n |-> 0, s |-> ""]

\* Python truthiness of a cell value: None, 0 and '' are false.
Truthy(c) == \/ c.t = "num" /\ c.n # 0
             \/ c.t = "str" /\ c.s # ""

\* pandas.isna of a value of an object or float column.
isna(c) == c.t \in {"none", "nan"}

\* The strings of the model that float() parses, with their values.
NumericStrings == ("150" :> 150)

\* pd.to_numeric(errors='coerce') on one value.
to_numeric(c) ==
    CASE c.t = "num" -> Num(c.n)
      [] c.t = "str" -> IF c.s \in DOMAIN NumericStrings
                        THEN Num(NumericStrings[c.s]) ELSE NaN
      [] OTHER -> NaN

\* str.strip on the labels of the model.
StripTable == (" red " :> "red") @@ (" " :> "")

strip(s) == IF s \in DOMAIN StripTable THEN StripTable[s] ELSE s

-----------------------------------------------------------------------------
(* load_data *)

SheetName == "Airline Bids"

\* The source labels of column_mapping that the analytics read.
column_mapping ==
    ("Origin Airport" :> "origin_airport") @@
    ("Destination Airport" :> "destination_airport") @@
    ("Airline" :> "airline") @@
    ("Direct / Indirect" :> "direct_indirect") @@
    ("Min Charge2" :> "min_charge2") @@
    ("Numerical Rating" :> "rating") @@
    ("Column1" :> "rating_category")

AllHeaders == DOMAIN column_mapping

\* The columns of the frame after the renaming loop.
RenamedColumns(headers) == {column_mapping[h] : h \in headers \cap AllHeaders}

\* Row filter of the reading loop: row_data[3], row_data[4], row_data[13].
KeyCellsPresent(row) ==
    Truthy(row.origin_airport) /\ Truthy(row.destination_airport) /\ Truthy(row.airline)

\* The list `data`: the rows the reading loop keeps, in sheet order.
ReadRows(sheet) == SelectSeq(sheet.rows, KeyCellsPresent)

BadColor(rating) ==
    IF isna(rating) THEN "#6b7280"
    ELSE IF rating.n = 1 THEN "#f59e0b"
    ELSE IF rating.n = 2 THEN "#10b981"
    ELSE IF rating.n = 3 THEN "#ef4444"
    ELSE "#6b7280"

get_color_from_rating(rating) ==
    IF isna(rating) THEN "#6b7280"
    ELSE IF rating.n = 1 THEN "#10b981"
    ELSE IF rating.n = 2 THEN "#f59e0b"
    ELSE IF rating.n = 3 THEN "#ef4444"
    ELSE "#6b7280"

\* astype(str).str.strip() and the replace of 'nan' and '' by 'Unknown'.
CleanCategory(c) ==
    LET asStr == IF c.t = "none" THEN "None" ELSE strip(c.s)
    IN IF asStr \in {"nan", ""} THEN "Unknown" ELSE asStr

\* One row of the frame before dropna: index label i, numeric coercion,
\* route, colour and cleaned category.
FrameRow(row, i, cols) ==
    [idx |-> i,
     origin_airport |-> row.origin_airport,
     destination_airport |-> row.destination_airport,
     airline |-> row.airline,
     min_charge2 |-> to_numeric(row.min_charge2),
     rating |-> to_numeric(row.rating),
     route |-> <<row.origin_airport.s, row.destination_airport.s>>,
     color |-> get_color_from_rating(to_numeric(row.rating)),
     rating_category |-> IF "rating_category" \in cols
                         THEN CleanCategory(row.rating_category) ELSE ""]

\* df.dropna(subset=[...]) keeps a row iff all four fields are non-null.
NoDropna(r) == TRUE

Complete(r) ==
    ~isna(r.origin_airport) /\ ~isna(r.destination_airport)
    /\ ~isna(r.airline) /\ ~isna(r.min_charge2)

\* The outcome of a load that never looks for the sheet name.
LoadOutcomeAnySheet(book) ==
    IF AllHeaders \ book.headers # {} THEN "exception" ELSE "ok"

\* What the try block of load_data ends with: "ok", the missing sheet, or an
\* exception (a KeyError on a column the code indexes without a presence
\* check, a TypeError on concatenating a non-string airport).
LoadOutcome(book) ==
    LET cols == RenamedColumns(book.headers)
        data == ReadRows(book)
    IN IF SheetName \notin book.sheetnames THEN "sheet_not_found"
       ELSE IF {"origin_airport", "destination_airport"} \ cols # {} THEN "exception"
       ELSE IF \E i \in 1..Len(data) :
                 data[i].origin_airport.t # "str" \/ data[i].destination_airport.t # "str"
            THEN "exception"
       ELSE IF "rating" \notin cols THEN "exception"
       ELSE IF {"airline", "min_charge2"} \ cols # {} THEN "exception"
       ELSE "ok"

NoneDF == [st |-> "none", cols |-> {}, rows |-> <<>>]

UnboundDF == [st |-> "unbound", cols |-> {}, rows |-> <<>>]

load_data(book) ==
    IF LoadOutcome(book) # "ok" THEN NoneDF
    ELSE LET cols == RenamedColumns(book.headers)
             data == ReadRows(book)
             frame == [i \in 1..Len(data) |-> FrameRow(data[i], i - 1, cols)]
         IN [st |-> "frame",
             cols |-> cols \cup {"route", "color"},
             rows |-> SelectSeq(frame, Complete)]

\* The st.error message load_data shows, "" when it shows none.
load_error(book) ==
    CASE LoadOutcome(book) = "sheet_not_found" -> "Sheet 'Airline Bids' not found in the Excel file"
      [] LoadOutcome(book) = "exception" -> "Error loading data"
      [] OTHER -> ""

-----------------------------------------------------------------------------
(* Arithmetic of the statistics *)

Abs(x) == IF x < 0 THEN -x ELSE x

RECURSIVE GCD(_, _)
GCD(a, b) == IF b = 0 THEN a ELSE GCD(b, a % b)

NaNF == [t |-> "nan", num |-> 0, den |-> 1]

\* The float quotient a / b of two whole-valued floats, as numpy.float64
\* computes it: division by zero gives nan or an infinity, not an exception.
FDiv(a, b) ==
    IF b = 0
    THEN IF a = 0 THEN NaNF
         ELSE [t |-> IF a > 0 THEN "inf" ELSE "-inf", num |-> 0, den |-> 1]
    ELSE LET g == GCD(Abs(a), Abs(b))
             sg == IF b < 0 THEN -1 ELSE 1
         IN [t |-> "num", num |-> sg * (a \div g), den |-> sg * (b \div g)]

\* f * k for a float f and a whole number k > 0.
FMul(f, k) == IF f.t = "num" THEN FDiv(f.num * k, f.den) ELSE f

\* The floor of a float in hundredths: truncation instead of rounding.
Trunc2(f) == (100 * f.num) \div f.den

\* round(2) of a finite float, in hundredths (round half to even).
Round2(f) ==
    LET q == (100 * f.num) \div f.den
        r == (100 * f.num) % f.den
    IN IF 2 * r < f.den THEN q
       ELSE IF 2 * r > f.den THEN q + 1
       ELSE IF q % 2 = 0 THEN q ELSE q + 1

Range(s) == {s[i] : i \in 1..Len(s)}

\* The results an ascending sort of s by the keys key[i] of s[i] can give.  The code sorts with the
\* default kind 'quicksort', which pandas and numpy document as not stable:
\* elements of equal key come out in an order that depends on the build.
\* Any element of least key comes first, then an ordering of the others.
RECURSIVE Orderings(_, _)
Orderings(s, key) ==
    IF s = <<>> THEN {<<>>}
    ELSE LET n == Len(s)
             least == {i \in 1..n : \A j \in 1..n : key[i] <= key[j]}
             Without(q, i) == [k \in 1..(n - 1) |-> IF k < i THEN q[k] ELSE q[k + 1]]
         IN UNION {{<<s[i]>> \o t : t \in Orderings(Without(s, i), Without(key, i))} :
                      i \in least}

Price(r) == r.min_charge2.n

MinOf(S) == CHOOSE x \in S : \A y \in S : x <= y

MaxOf(S) == CHOOSE x \in S : \A y \in S : x >= y

RECURSIVE SumPrices(_)
SumPrices(rows) ==
    IF rows = <<>> THEN 0 ELSE Price(Head(rows)) + SumPrices(Tail(rows))

\* Series.mean() of min_charge2 over a non-empty group.
MeanPrice(rows) == FDiv(SumPrices(rows), Len(rows))

-----------------------------------------------------------------------------
(* create_route_analysis *)

\* df[(origin_airport == origin) & (destination_airport == destination)]
RouteRows(frame, origin, destination) ==
    SelectSeq(frame.rows,
              LAMBDA r : r.origin_airport = Str(origin)
                         /\ r.destination_airport = Str(destination))

\* sort_values('min_charge2'): the possible results, ascending in price.
sort_values(rows) == Orderings(rows, [i \in 1..Len(rows) |-> Price(rows[i])])

NoMetrics == [shown |-> FALSE, carrier_count |-> 0, best_price |-> 0,
              avg_price |-> NaNF, price_variance |-> 0]

\* The price spread shown in the fourth metric.
price_spread(rows) ==
    IF Len(rows) > 1
    THEN MaxOf({Price(r) : r \in Range(rows)}) - MinOf({Price(r) : r \in Range(rows)})
    ELSE 0

\* len(route_data) instead of nunique() of the airline column.
CountRows(rows) == Len(rows)

carrier_count(rows) == Cardinality({r.airline : r \in Range(rows)})

\* The four values handed to st.metric, before they are formatted.
route_metrics(frame, origin, destination) ==
    LET rows == RouteRows(frame, origin, destination)
    IN IF rows = <<>> THEN NoMetrics
       ELSE [shown |-> TRUE,
             carrier_count |-> carrier_count(rows),
             best_price |-> MinOf({Price(r) : r \in Range(rows)}),
             avg_price |-> MeanPrice(rows),
             price_variance |-> price_spread(rows)]

NoRouteData == [none |-> TRUE, rows |-> <<>>]

\* The route analysis without the route_data.empty test.
RouteAnalysisUnguarded(frame, origin, destination) ==
    {[none |-> FALSE, rows |-> s] :
        s \in sort_values(RouteRows(frame, origin, destination))}

\* The possible return values: None for an empty route, else the rows sorted
\* by price.
create_route_analysis(frame, origin, destination) ==
    LET rows == RouteRows(frame, origin, destination)
    IN IF rows = <<>> THEN {NoRouteData}
       ELSE {[none |-> FALSE, rows |-> s] : s \in sort_values(rows)}

\* The st.warning of create_route_analysis, "" when it shows none.
route_warning(frame, origin, destination) ==
    IF RouteRows(frame, origin, destination) = <<>>
    THEN "No carriers serve this route in our current bid data."
    ELSE ""

-----------------------------------------------------------------------------
(* show_carrier_insights *)

NoRow == [idx |-> -1, origin_airport |-> None, destination_airport |-> None,
          airline |-> None, min_charge2 |-> NaN, rating |-> NaN,
          route |-> <<"", "">>, color |-> "", rating_category |-> ""]

\* Series.idxmin / idxmax: the index label of the first extreme value.
idxmin(rows) ==
    LET m == MinOf({Price(r) : r \in Range(rows)})
        i == MinOf({j \in 1..Len(rows) : Price(rows[j]) = m})
    IN rows[i].idx

idxmax(rows) ==
    LET m == MaxOf({Price(r) : r \in Range(rows)})
        i == MinOf({j \in 1..Len(rows) : Price(rows[j]) = m})
    IN rows[i].idx

\* route_data.loc[label]
loc(rows, label) == CHOOSE r \in Range(rows) : r.idx = label

NoInsight == [shown |-> FALSE, best_option |-> NoRow, worst_option |-> NoRow,
              has_savings |-> FALSE, savings |-> 0, savings_pct |-> NaNF]

worst_option(rows) ==
    IF Len(rows) > 1 THEN loc(rows, idxmax(rows)) ELSE loc(rows, idxmin(rows))

\* The percentage taken of the recommended price instead of the baseline.
PctOfBest(best, worst) == FMul(FDiv(Price(worst) - Price(best), Price(best)), 100)

\* (savings / worst_option['min_charge2']) * 100
savings_pct(best, worst) == FMul(FDiv(Price(worst) - Price(best), Price(worst)), 100)

\* The cost figures computed for any non-empty route, a single record included.
InsightsAlwaysSavings(rows) ==
    IF Len(rows) = 0 THEN NoInsight
    ELSE LET best == loc(rows, idxmin(rows))
             worst == worst_option(rows)
         IN [shown |-> TRUE, best_option |-> best, worst_option |-> worst,
             has_savings |-> TRUE,
             savings |-> Price(worst) - Price(best),
             savings_pct |-> savings_pct(best, worst)]

show_carrier_insights(rows) ==
    IF Len(rows) = 0 THEN NoInsight
    ELSE LET best == loc(rows, idxmin(rows))
             worst == worst_option(rows)
         IN IF Len(rows) > 1
            THEN [shown |-> TRUE, best_option |-> best, worst_option |-> worst,
                  has_savings |-> TRUE,
                  savings |-> Price(worst) - Price(best),
                  savings_pct |-> savings_pct(best, worst)]
            ELSE [shown |-> TRUE, best_option |-> best, worst_option |-> worst,
                  has_savings |-> FALSE, savings |-> 0, savings_pct |-> NaNF]

-----------------------------------------------------------------------------
(* create_airlines_overview *)

\* The lexicographic rank of the airline names of the model.
NameRank == ("A" :> 1) @@ ("B" :> 2) @@ ("C" :> 3)

GroupRows(frame, name) == SelectSeq(frame.rows, LAMBDA r : r.airline = Str(name))

\* lambda x: (x == 1).sum() / len(x) * 100 if len(x) > 0 else 0
rating_score(rows) ==
    IF Len(rows) > 0
    THEN FMul(FDiv(Cardinality({i \in 1..Len(rows) : rows[i].rating = Num(1)}),
                   Len(rows)), 100)
    ELSE FDiv(0, 1)

\* The aggregated row of one airline after round(2); avg_rate, min_rate,
\* max_rate and competitiveness_score are in hundredths.
AirlineRow(frame, name) ==
    LET rows == GroupRows(frame, name)
        prices == {Price(r) : r \in Range(rows)}
    IN [airline |-> name,
        avg_rate |-> Round2(MeanPrice(rows)),
        min_rate |-> Round2(FDiv(MinOf(prices), 1)),
        max_rate |-> Round2(FDiv(MaxOf(prices), 1)),
        total_bids |-> Len(rows),
        routes_served |-> Cardinality({r.route : r \in Range(rows)}),
        competitiveness_score |-> Round2(rating_score(rows))]

\* The groups of groupby('airline'), in ascending order of the airline name.
RECURSIVE GroupedStats(_, _)
GroupedStats(frame, names) ==
    IF names = {} THEN <<>>
    ELSE LET first == CHOOSE a \in names : \A b \in names : NameRank[a] <= NameRank[b]
         IN <<AirlineRow(frame, first)>> \o GroupedStats(frame, names \ {first})

\* sort_values('total_bids', ascending=False): the possible results.
sort_by_total_bids(stats) ==
    Orderings(stats, [i \in 1..Len(stats) |-> 0 - stats[i].total_bids])

\* The number of carriers of the second chart: nlargest(10, ...).
TopN == 10

\* The rows of stats by descending score, rows of equal score in their order
\* in stats (a merge sort).
RECURSIVE StableByScore(_)
StableByScore(stats) ==
    IF stats = <<>> THEN <<>>
    ELSE LET r == stats[Len(stats)]
             rest == StableByScore(SubSeq(stats, 1, Len(stats) - 1))
             ge == SelectSeq(rest, LAMBDA x :
                       x.competitiveness_score >= r.competitiveness_score)
             lt == SelectSeq(rest, LAMBDA x :
                       x.competitiveness_score < r.competitiveness_score)
         IN ge \o <<r>> \o lt

\* nlargest(n, 'competitiveness_score') with keep='first': for n >= len the
\* frame sorted by descending score with the default sort, else the n first
\* rows of the stable order.
nlargest(stats, n) ==
    IF n >= Len(stats)
    THEN Orderings(stats, [i \in 1..Len(stats) |->
                              0 - stats[i].competitiveness_score])
    ELSE {SubSeq(StableByScore(stats), 1, n)}

\* The possible values of airline_stats and top_competitive.
create_airlines_overview(frame) ==
    UNION {{[airline_stats |-> s, top_competitive |-> t] : t \in nlargest(s, TopN)} :
             s \in sort_by_total_bids(
                      GroupedStats(frame, {r.airline.s : r \in Range(frame.rows)}))}

-----------------------------------------------------------------------------
(* The uploaded workbooks of the model *)

MaxDirtyRows == 2
MaxRouteRows == 3
MaxCarrierRows == 4
MaxRatingRows == 1

Row(o, d, a, p, r, c) ==
    [origin_airport |-> o, destination_airport |-> d, airline |-> a,
     min_charge2 |-> p, rating |-> r, rating_category |-> c]

\* Rows with missing key cells and unparseable prices.
DirtyRowSet ==
    {Row(k[1], k[2], k[3], p, Num(1), Str("Green")) :
        k \in {<<Str("JFK"), Str("LHR"), Str("A")>>,
               <<None, Str("LHR"), Str("A")>>,
               <<Str("JFK"), None, Str("A")>>,
               <<Str("JFK"), Str("LHR"), None>>,
               <<Str("JFK"), Str("LHR"), Str("")>>},
        p \in {None, Str("abc"), Str("150"), Num(100)}}

\* Valid rows of one route, with varying carriers and prices.
RouteRowSet ==
    {Row(Str("JFK"), Str("LHR"), Str(a), Num(p), Num(2), Str("Orange")) :
        a \in {"A", "B", "C"}, p \in {0, 100, 150, 200}}

\* Valid rows of two carriers over two routes, rated 1 or 2, priced by carrier.
CarrierRowSet ==
    {Row(Str("JFK"), Str(d), Str(a), Num(IF a = "A" THEN 100 ELSE 150), Num(r), None) :
        d \in {"LHR", "CDG"}, a \in {"A", "B"}, r \in {1, 2}}

\* Valid rows with every kind of rating cell and category label.
RatingRowSet ==
    {Row(Str("JFK"), Str("LHR"), Str("A"), Num(100), r, c) :
        r \in {None, Num(0), Num(1), Num(2), Num(3), Num(4), Str("green")},
        c \in {None, Str("green"), Str("Green"), Str("GREEN"), Str("orange"),
               Str(" red "), Str("red"), Str(" "), Str("nan")}}

SeqsUpTo(S, n) == UNION {[1..k -> S] : k \in 0..n}

Book(names, headers, rows) ==
    [sheetnames |-> names, headers |-> headers, rows |-> rows]

\* Workbooks with the 'Airline Bids' sheet and every mapped header.
FullBooks ==
    {Book({SheetName}, AllHeaders, rows) :
        rows \in SeqsUpTo(DirtyRowSet, MaxDirtyRows)
                 \cup SeqsUpTo(RouteRowSet, MaxRouteRows)
                 \cup SeqsUpTo(CarrierRowSet, MaxCarrierRows)
                 \cup SeqsUpTo(RatingRowSet, MaxRatingRows)}

\* Workbooks whose header row lacks one of the mapped labels.
PartialBooks ==
    {Book({SheetName}, AllHeaders \ {h},
          <<Row(Str("JFK"), Str("LHR"), Str("A"), Num(100), Num(1), Str("Green"))>>) :
        h \in AllHeaders}

\* Workbooks without the 'Airline Bids' sheet.
OtherBooks == {Book({"Sheet1"}, {}, <<>>)}

\* uploaded_file is None
NoFile == Book({}, {}, <<>>)

Uploads == FullBooks \cup PartialBooks \cup OtherBooks \cup {NoFile}

\* The airports a caller may ask create_route_analysis about.
Airports == {"JFK", "LHR", "CDG"}

-----------------------------------------------------------------------------
(* main *)

\* The locals of main and what a run has shown, at the start of a run.
RunStart ==
    /\ pc = "start"
    /\ df = UnboundDF
    /\ errors = {}
    /\ calls = {}
    /\ selected_origin = ""
    /\ selected_destination = ""
    /\ route_data = NoRouteData
    /\ metrics = NoMetrics
    /\ insight = NoInsight
    /\ airline_stats = <<>>
    /\ top_competitive = <<>>

Init ==
    /\ wb \in Uploads
    /\ RunStart
    /\ loaded = <<>>

\* uploaded_file is not None: df = load_data(uploaded_file), then the test
\* `if df is not None`.  loaded records the file the call was given.  The
\* call is taken as a run of the body of load_data; the store of results the
\* decorator @st.cache_data keeps between runs is the library's.
MainLoad ==
    /\ pc = "start"
    /\ wb # NoFile
    /\ df' = load_data(wb)
    /\ errors' = errors \cup ({load_error(wb)} \ {""})
    /\ loaded' = Append(loaded, wb)
    /\ pc' = IF df'.st = "frame" THEN "overview" ELSE "done"
    /\ UNCHANGED <<wb, calls, selected_origin, selected_destination,
                   route_data, metrics, insight, airline_stats, top_competitive>>

\* uploaded_file is None: the else branch evaluates the name df, which was
\* never assigned, and Python raises UnboundLocalError before the call.
MainLanding ==
    /\ pc = "start"
    /\ wb = NoFile
    /\ errors' = errors \cup {"UnboundLocalError"}
    /\ pc' = "raised"
    /\ UNCHANGED <<wb, df, calls, selected_origin, selected_destination,
                   route_data, metrics, insight, airline_stats, top_competitive,
                   loaded>>

MainOverview ==
    /\ pc = "overview"
    /\ calls' = calls \cup {"show_executive_overview"}
    /\ pc' = "select"
    /\ UNCHANGED <<wb, df, errors, selected_origin, selected_destination,
                   route_data, metrics, insight, airline_stats, top_competitive,
                   loaded>>

\* What st.selectbox returns: one of the options, None ("") when there is none.
Selectbox(options) == IF options = {} THEN {""} ELSE options

\* The two select boxes of the route tab: the destinations offered are those
\* of the selected origin.
MainSelect ==
    /\ pc = "select"
    /\ \E o \in Selectbox({r.origin_airport.s : r \in Range(df.rows)}) :
         \E d \in Selectbox({r.destination_airport.s :
                               r \in {x \in Range(df.rows) : x.origin_airport = Str(o)}}) :
            /\ selected_origin' = o
            /\ selected_destination' = d
    /\ pc' = "route"
    /\ UNCHANGED <<wb, df, errors, calls, route_data, metrics, insight,
                   airline_stats, top_competitive, loaded>>

\* A caller of the route analysis that passes any pair of airports.
QuerySelect ==
    /\ pc = "select"
    /\ selected_origin' \in Airports
    /\ selected_destination' \in Airports
    /\ pc' = "route"
    /\ UNCHANGED <<wb, df, errors, calls, route_data, metrics, insight,
                   airline_stats, top_competitive, loaded>>

\* if selected_origin and selected_destination: create_route_analysis(...),
\* then the test `route_data is not None and not route_data.empty`.
MainRoute ==
    /\ pc = "route"
    /\ IF selected_origin # "" /\ selected_destination # ""
       THEN /\ route_data' \in create_route_analysis(df, selected_origin, selected_destination)
            /\ metrics' = route_metrics(df, selected_origin, selected_destination)
            /\ errors' = errors \cup
                 ({route_warning(df, selected_origin, selected_destination)} \ {""})
            /\ calls' = calls \cup {"create_route_analysis"}
            /\ pc' = IF ~route_data'.none /\ route_data'.rows # <<>>
                     THEN "insights" ELSE "carriers"
       ELSE /\ pc' = "carriers"
            /\ UNCHANGED <<route_data, metrics, errors, calls>>
    /\ UNCHANGED <<wb, df, selected_origin, selected_destination, insight,
                   airline_stats, top_competitive, loaded>>

MainInsights ==
    /\ pc = "insights"
    /\ insight' = show_carrier_insights(route_data.rows)
    /\ calls' = calls \cup {"show_carrier_insights"}
    /\ pc' = "carriers"
    /\ UNCHANGED <<wb, df, errors, selected_origin, selected_destination,
                   route_data, metrics, airline_stats, top_competitive, loaded>>

MainCarriers ==
    /\ pc = "carriers"
    /\ \E out \in create_airlines_overview(df) :
          /\ airline_stats' = out.airline_stats
          /\ top_competitive' = out.top_competitive
    /\ calls' = calls \cup {"create_airlines_overview"}
    /\ pc' = "done"
    /\ UNCHANGED <<wb, df, errors, selected_origin, selected_destination,
                   route_data, metrics, insight, loaded>>

Next ==
    \/ MainLoad
    \/ MainLanding
    \/ MainOverview
    \/ MainSelect
    \/ MainRoute
    \/ MainInsights
    \/ MainCarriers

Spec == Init /\ [][Next]_vars

NextQuery ==
    \/ MainLoad
    \/ MainLanding
    \/ MainOverview
    \/ QuerySelect
    \/ MainRoute
    \/ MainInsights
    \/ MainCarriers

SpecQuery == Init /\ [][NextQuery]_vars

-----------------------------------------------------------------------------
(* Properties *)

\* Lower case of the category labels of the model, for comparing labels
\* without regard to letter case.
LowerTable == ("Green" :> "green") @@ ("GREEN" :> "green") @@ ("Orange" :> "orange")

lower(s) == IF s \in DOMAIN LowerTable THEN LowerTable[s] ELSE s

StatsAreIn == pc = "done" /\ "create_airlines_overview" \in calls

\* The records of df on the selected route, as a set.
Matching ==
    {r \in Range(df.rows) : /\ r.origin_airport = Str(selected_origin)
                            /\ r.destination_airport = Str(selected_destination)}

\* C1: every record of the frame a successful load_data returns, and so every
\* record of the route data derived from it, has a non-null origin_airport,
\* destination_airport and airline and a numeric min_charge2.
C1_ValidRecords ==
    df.st = "frame" =>
        \A r \in Range(df.rows) \cup Range(route_data.rows) :
            /\ r.origin_airport.t \notin {"none", "nan"}
            /\ r.destination_airport.t \notin {"none", "nan"}
            /\ r.airline.t \notin {"none", "nan"}
            /\ r.min_charge2.t = "num"

\* A sheet row with its key cells present and an unparseable price was read,
\* and the returned frame holds another row but not that one.
C1_Witness ==
    /\ df.st = "frame"
    /\ Len(df.rows) = 1
    /\ Len(wb.rows) = 2
    /\ \E i \in 1..Len(wb.rows) :
          /\ KeyCellsPresent(wb.rows[i])
          /\ wb.rows[i].min_charge2 = Str("abc")

\* C2: once main has loaded a workbook that has no sheet named 'Airline Bids',
\* load_data has shown the sheet error and returned None, and main has
\* invoked none of the analytics operations.
C2_MissingSheet ==
    (pc # "start" /\ wb # NoFile /\ SheetName \notin wb.sheetnames) =>
        /\ df.st = "none"
        /\ "Sheet 'Airline Bids' not found in the Excel file" \in errors
        /\ calls = {}
        /\ pc = "done"

C2_Witness ==
    /\ pc = "done"
    /\ wb.sheetnames = {"Sheet1"}
    /\ df.st = "none"
    /\ calls = {}

\* C3: for a route with two or more records the recommended record has the
\* minimum price, the baseline record the maximum price, savings is their
\* difference and, for a non-zero baseline, savings_pct is 100 * savings /
\* baseline; records A:100, B:150, C:200 give A, C, 100 and 50.
C3_Recommendation ==
    (insight.shown /\ Len(route_data.rows) >= 2) =>
        LET rows == Range(route_data.rows)
            best == insight.best_option
            worst == insight.worst_option
        IN /\ best \in rows /\ worst \in rows
           /\ \A r \in rows : Price(best) <= Price(r) /\ Price(r) <= Price(worst)
           /\ insight.has_savings
           /\ insight.savings = Price(worst) - Price(best)
           /\ Price(worst) # 0 =>
                 /\ insight.savings_pct.t = "num"
                 /\ insight.savings_pct.num * Price(worst)
                      = 100 * insight.savings * insight.savings_pct.den
           /\ {<<r.airline.s, Price(r)>> : r \in rows}
                  = {<<"A", 100>>, <<"B", 150>>, <<"C", 200>>} =>
                 /\ best.airline = Str("A") /\ worst.airline = Str("C")
                 /\ insight.savings = 100
                 /\ insight.savings_pct = [t |-> "num", num |-> 50, den |-> 1]

C3_Witness ==
    /\ insight.shown
    /\ {<<r.airline.s, Price(r)>> : r \in Range(route_data.rows)}
          = {<<"A", 100>>, <<"B", 150>>, <<"C", 200>>}
    /\ insight.best_option.airline = Str("A")
    /\ insight.worst_option.airline = Str("C")
    /\ insight.savings = 100
    /\ insight.savings_pct = [t |-> "num", num |-> 50, den |-> 1]

\* C4: for a route with two or more records whose maximum price is 0, the
\* recommendation reports savings_pct = 0.
C4_ZeroBaselineGuard ==
    (insight.shown /\ Len(route_data.rows) >= 2 /\ Price(insight.worst_option) = 0) =>
        /\ insight.savings_pct.t = "num"
        /\ insight.savings_pct.num = 0

\* C5 as stated: for a route with exactly one record the recommended and the
\* baseline record are the same and the recommendation yields savings = 0 and
\* savings_pct = 0.
C5_SingleRecordZeroSavings ==
    (insight.shown /\ Len(route_data.rows) = 1) =>
        /\ insight.best_option = insight.worst_option
        /\ insight.has_savings
        /\ insight.savings = 0
        /\ insight.savings_pct.t = "num" /\ insight.savings_pct.num = 0

\* C5 amended: for a route with exactly one record the recommended and the
\* baseline record are that same record, and no savings and no savings_pct are
\* computed.
C5_SingleRecordNoSavings ==
    (insight.shown /\ Len(route_data.rows) = 1) =>
        /\ insight.best_option = route_data.rows[1]
        /\ insight.worst_option = route_data.rows[1]
        /\ ~insight.has_savings

C5_Witness ==
    /\ pc = "done"
    /\ insight.shown
    /\ Len(route_data.rows) = 1
    /\ insight.best_option = insight.worst_option
    /\ Price(insight.best_option) = 100

\* C6: when create_route_analysis was called for a pair of airports that no
\* record of the frame matches, it returned None and showed the warning, no
\* load error was shown, nothing was raised, and no recommendation was
\* computed.
C6_EmptyRoute ==
    ("create_route_analysis" \in calls /\ Matching = {}) =>
        /\ route_data.none
        /\ metrics = NoMetrics
        /\ "No carriers serve this route in our current bid data." \in errors
        /\ errors = {"No carriers serve this route in our current bid data."}
        /\ pc \in {"carriers", "done"}
        /\ "show_carrier_insights" \notin calls
        /\ ~insight.shown

C6_Witness ==
    /\ pc = "done"
    /\ "create_route_analysis" \in calls
    /\ Len(df.rows) >= 1
    /\ selected_origin = "JFK" /\ selected_destination = "CDG"
    /\ Matching = {}
    /\ route_data.none
    /\ airline_stats # <<>>

\* C7: every record of the frame has the colour of its numeric rating:
\* #10b981 for 1, #f59e0b for 2, #ef4444 for 3, and #6b7280 for any other
\* number and for a null rating.
C7_ColourOfRating ==
    df.st = "frame" =>
        \A r \in Range(df.rows) :
            /\ r.rating = Num(1) => r.color = "#10b981"
            /\ r.rating = Num(2) => r.color = "#f59e0b"
            /\ r.rating = Num(3) => r.color = "#ef4444"
            /\ r.rating \notin {Num(1), Num(2), Num(3)} => r.color = "#6b7280"

C7_Witness ==
    /\ df.st = "frame"
    /\ \E r \in Range(df.rows) : r.rating = Num(3) /\ r.color = "#ef4444"

\* C8: a record whose rating is given only as a category label has the colour
\* of the equivalent numeric rating: green as 1, orange as 2, red as 3, in any
\* letter case.
C8_ColourOfCategory ==
    df.st = "frame" =>
        \A r \in Range(df.rows) :
            isna(r.rating) =>
                /\ lower(r.rating_category) = "green" => r.color = "#10b981"
                /\ lower(r.rating_category) = "orange" => r.color = "#f59e0b"
                /\ lower(r.rating_category) = "red" => r.color = "#ef4444"

\* The validated bids of an airline in the frame, and those rated 1.
Bids(name) == {i \in 1..Len(df.rows) : df.rows[i].airline = Str(name)}

BestBids(name) == {i \in Bids(name) : df.rows[i].rating = Num(1)}

\* Every airline of the frame has one row in the carrier summary, and
\* total_bids of a row is the number of validated bids of its airline.
StatsCoverFrame ==
    /\ \A r \in Range(df.rows) :
          Cardinality({k \in 1..Len(airline_stats) :
                          airline_stats[k].airline = r.airline.s}) = 1
    /\ \A k \in 1..Len(airline_stats) :
          /\ airline_stats[k].total_bids = Cardinality(Bids(airline_stats[k].airline))
          /\ airline_stats[k].total_bids > 0

\* C9 as stated: in the carrier summary total_bids is the number of validated
\* bids of the airline and competitiveness_score (kept in hundredths) is
\* exactly 100 * (bids rated 1) / total_bids.
C9_ExactScore ==
    StatsAreIn =>
        /\ StatsCoverFrame
        /\ \A k \in 1..Len(airline_stats) :
              airline_stats[k].competitiveness_score * airline_stats[k].total_bids
                 = 10000 * Cardinality(BestBids(airline_stats[k].airline))

\* C9 amended: competitiveness_score is 100 * (bids rated 1) / total_bids
\* rounded to two decimals: it is a whole number of hundredths at most half a
\* hundredth away from the quotient; 2 bids rated 1 out of 4 score 50.
C9_RoundedScore ==
    StatsAreIn =>
        /\ StatsCoverFrame
        /\ \A k \in 1..Len(airline_stats) :
              LET s == airline_stats[k]
                  best == Cardinality(BestBids(s.airline))
              IN /\ 2 * Abs(s.competitiveness_score * s.total_bids - 10000 * best)
                       <= s.total_bids
                 /\ (s.total_bids = 4 /\ best = 2) => s.competitiveness_score = 5000

C9_Witness ==
    /\ StatsAreIn
    /\ \E k \in 1..Len(airline_stats) :
          /\ airline_stats[k].airline = "A"
          /\ airline_stats[k].total_bids = 4
          /\ Cardinality(BestBids("A")) = 2
          /\ airline_stats[k].competitiveness_score = 5000

\* C10: the route summary of a selected route with records reports the number
\* of distinct airlines of the route's records, the minimum and the mean of
\* their min_charge2, and the spread maximum - minimum, which is 0 for a
\* single record; A:100, B:150, C:200 give 3, 100, 150 and 100.
C10_RouteSummary ==
    (metrics.shown /\ Matching # {}) =>
        LET prices == {Price(r) : r \in Matching}
            n == Cardinality(Matching)
        IN /\ metrics.carrier_count = Cardinality({r.airline.s : r \in Matching})
           /\ metrics.best_price \in prices
           /\ \A q \in prices : metrics.best_price <= q
           /\ metrics.avg_price.t = "num"
           /\ metrics.avg_price.num * n
                 = metrics.avg_price.den * SumPrices(route_data.rows)
           /\ Len(route_data.rows) = n
           /\ \E hi \in prices :
                 /\ \A q \in prices : q <= hi
                 /\ metrics.price_variance = hi - metrics.best_price
           /\ n = 1 => metrics.price_variance = 0
           /\ {<<r.airline.s, Price(r)>> : r \in Matching}
                  = {<<"A", 100>>, <<"B", 150>>, <<"C", 200>>} /\ n = 3 =>
                 /\ metrics.carrier_count = 3
                 /\ metrics.best_price = 100
                 /\ metrics.avg_price = [t |-> "num", num |-> 150, den |-> 1]
                 /\ metrics.price_variance = 100

C10_Witness ==
    /\ metrics.shown
    /\ Cardinality(Matching) = 3
    /\ {<<r.airline.s, Price(r)>> : r \in Matching}
          = {<<"A", 100>>, <<"B", 150>>, <<"C", 200>>}
    /\ metrics.carrier_count = 3
    /\ metrics.best_price = 100
    /\ metrics.avg_price = [t |-> "num", num |-> 150, den |-> 1]
    /\ metrics.price_variance = 100

\* The headers load_data cannot do without, and the sheet rows that satisfy
\* the validity invariant.
RequiredHeaders == {"Origin Airport", "Destination Airport", "Airline", "Min Charge2"}

ValidSheetRows ==
    {i \in 1..Len(wb.rows) : /\ KeyCellsPresent(wb.rows[i])
                             /\ to_numeric(wb.rows[i].min_charge2).t = "num"}

\* C11: when the workbook has the sheet and its required columns, load_data
\* does not fail as a whole, whatever cells are unparseable and whichever
\* optional column ('Numerical Rating', 'Column1', 'Direct / Indirect') is
\* missing: it shows no load error and returns the rows that satisfy the
\* validity invariant.
C11_NoEscalation ==
    (df.st # "unbound" /\ SheetName \in wb.sheetnames /\ RequiredHeaders \subseteq wb.headers) =>
        /\ df.st = "frame"
        /\ "Error loading data" \notin errors
        /\ Len(df.rows) = Cardinality(ValidSheetRows)

\* Rows i < j of a ranking by the column key are in order: the key descends, and rows of
\* equal key are in ascending order of the airline name.
RankedByName(ranking, key) ==
    \A i, j \in 1..Len(ranking) :
        i < j => \/ ranking[i][key] > ranking[j][key]
                 \/ /\ ranking[i][key] = ranking[j][key]
                    /\ NameRank[ranking[i].airline] < NameRank[ranking[j].airline]

\* C13: the summary table is ordered by descending total_bids and the top
\* carriers by descending competitiveness_score, carriers of equal key in
\* ascending order of the airline name.
C13_TiesByName ==
    StatsAreIn =>
        /\ RankedByName(airline_stats, "total_bids")
        /\ RankedByName(top_competitive, "competitiveness_score")

\* C14: in a run of main an analytics operation is invoked only with the
\* frame the load_data call of that run returned, and with no file uploaded
\* main raises nothing: it does not read a data set that was never assigned.
C14_LoadedDataOnly ==
    /\ calls # {} => /\ df.st = "frame"
                     /\ loaded # <<>>
                     /\ loaded[Len(loaded)] = wb
    /\ (wb = NoFile /\ pc # "start") =>
          /\ pc # "raised"
          /\ "UnboundLocalError" \notin errors

====
